---- MODULE Spec2Model ----
(***************************************************************************)
(* State-machine model of the frame synchronisation and overlay code of    *)
(* DataBowl:                                                               *)
(*   src/src/video/synchronizer.py  VideoTrackingSynchronizer              *)
(*   src/src/video/overlay.py       TrackingOverlayRenderer                *)
(*   src/src/animation/animator.py  PlayAnimator                           *)
(***************************************************************************)
EXTENDS Integers, Sequences, FiniteSets, TLC

VARIABLES
    video_frame_count,   \* self.video_frame_count          (synchronizer.py:30)
    sync_map,            \* self.sync_map: [has, val]       (synchronizer.py:49)
    sync_interpolator,   \* self.sync_interpolator: [has, val]  (synchronizer.py:57)
    frame_offset,        \* self.frame_offset: [has, val]   (synchronizer.py:67)
    sync_done,           \* history: some set_sync_points call has returned normally
    sync_ret,            \* outcome of the last synchronizer call
    video_calls,         \* the self.video calls the last synchronizer call made
    tracking_data,       \* self.tracking_data: the rows   (synchronizer.py:25)
    resample_ret,        \* outcome of the last interpolate_tracking_data call
    resample_history,    \* history of the interpolate_tracking_data calls
    homography,          \* self.homography: [has, val]     (overlay.py:71)
    first_homography,    \* history: what the first returning set_field_calibration stored
    calibration_points,  \* history: the arguments of the last returning set_field_calibration
    overlay_ret,         \* outcome of the last coordinate or calibration call
    trail_ret,           \* outcome of the last draw call, when draw_player_trail
    draw_ret,            \* outcome of the last draw call, when another method
    tracking,            \* PlayAnimator: self.tracking       (animator.py:36)
    animation_args,      \* self.color_map, self.show_trails, ... (animator.py:93-98)
    player_scatter,      \* self.player_scatter: None or a handle (animator.py:76)
    ball_scatter,        \* self.ball_scatter                   (animator.py:77)
    trail_lines,         \* self.trail_lines: list of handles   (animator.py:78)
    speed_arrows,        \* self.speed_arrows                   (animator.py:79)
    ball_trajectory_line,\* self.ball_trajectory_line           (animator.py:80)
    frame_text,          \* the text of self.frame_text         (animator.py:104)
    canvas,              \* the artists on self.field.ax
    frame_seq,           \* FuncAnimation: what the next timer step delivers
    anim_ret,            \* outcome of the last PlayAnimator call
    drawn                \* history: the frame ids updated in this animation

sync_vars == <<video_frame_count, sync_map, sync_interpolator, frame_offset,
               sync_done, sync_ret, video_calls>>
resample_vars == <<tracking_data, resample_ret, resample_history>>
overlay_vars == <<homography, first_homography, calibration_points,
                  overlay_ret, trail_ret, draw_ret>>
animator_vars == <<tracking, animation_args, player_scatter, ball_scatter,
                   trail_lines, speed_arrows, ball_trajectory_line, frame_text,
                   canvas, frame_seq, anim_ret, drawn>>
vars == <<video_frame_count, sync_map, sync_interpolator, frame_offset,
          sync_done, sync_ret, video_calls, tracking_data, resample_ret,
          resample_history, homography, first_homography, calibration_points,
          overlay_ret, trail_ret, draw_ret, tracking, animation_args,
          player_scatter, ball_scatter, trail_lines, speed_arrows,
          ball_trajectory_line, frame_text, canvas, frame_seq, anim_ret,
          drawn>>

(***************************************************************************)
(* Bounds of the model.                                                    *)
(***************************************************************************)
\* largest number of anchors in one sync_map
MaxAnchors == 3
\* distance of the far-away tracking frame ids from the anchor range
Far == 200

\* anchor correspondences (tracking frame id, video frame number) to draw from
AnchorPool ==
    { <<0, 0>>, <<11, 15>>, <<35, 45>>, <<35, 0>>, <<58, 78>> }

AnchorKeys == { p[1] : p \in AnchorPool }
AnchorVals == { p[2] : p \in AnchorPool }

\* the dictionaries a caller can pass to set_sync_points (the empty one included)
AnchorMaps ==
    { m \in UNION { [K -> AnchorVals] : K \in SUBSET AnchorKeys } :
        /\ Cardinality(DOMAIN m) <= MaxAnchors
        /\ \A k \in DOMAIN m : <<k, m[k]>> \in AnchorPool }

EmptyMap == [k \in {} |-> 0]

\* tracking frame ids a caller asks about
TrackingIds == { 0 - Far, 0, 11, 35, 46, 58, 58 + Far }

\* frame counts cv2 can report (0 for a file that could not be opened)
VideoFrameCounts == { 0, 1, 60, 1000 }

(***************************************************************************)
(* IEEE-754 binary64 arithmetic on the values the interpolator meets.      *)
(* A natural number too wide for one machine word is a sequence of limbs,  *)
(* least significant first; a double is [neg, m, e]: sign, significand (a  *)
(* limb sequence of at most 53 bits) and exponent, (-1)^neg * m * 2^e.     *)
(***************************************************************************)
Abs(n) == IF n < 0 THEN 0 - n ELSE n

LimbBits == 16
Limb == 2 ^ LimbBits

\* number of bits of a natural below 2^31
BitLen(n) == Cardinality({ k \in 0..30 : 2 ^ k <= n })

BigFromInt(n) == <<n % Limb, n \div Limb>>

BigIsZero(x) == \A k \in 1..Len(x) : x[k] = 0

\* index of the most significant limb that is not zero (0 for zero)
BigTop(x) ==
    IF BigIsZero(x) THEN 0
    ELSE CHOOSE k \in 1..Len(x) :
             x[k] # 0 /\ \A j \in (k + 1)..Len(x) : x[j] = 0

\* x without its leading zero limbs
BigTrim(x) == SubSeq(x, 1, BigTop(x))

BigBitLen(x) ==
    IF BigIsZero(x) THEN 0
    ELSE (BigTop(x) - 1) * LimbBits + BitLen(x[BigTop(x)])

\* x * c + carry for a small c
RECURSIVE BigMulSmall(_, _, _)
BigMulSmall(x, c, carry) ==
    IF x = << >> THEN BigFromInt(carry)
    ELSE LET d == Head(x) * c + carry
         IN  <<d % Limb>> \o BigMulSmall(Tail(x), c, d \div Limb)

\* x + y + carry
RECURSIVE BigAdd(_, _, _)
BigAdd(x, y, carry) ==
    IF x = << >> /\ y = << >> THEN <<carry>>
    ELSE LET a == IF x = << >> THEN 0 ELSE Head(x)
             b == IF y = << >> THEN 0 ELSE Head(y)
             d == a + b + carry
         IN  <<d % Limb>> \o BigAdd(IF x = << >> THEN x ELSE Tail(x),
                                    IF y = << >> THEN y ELSE Tail(y),
                                    d \div Limb)

\* x - y - borrow, for x >= y
RECURSIVE BigSub(_, _, _)
BigSub(x, y, borrow) ==
    IF x = << >> THEN << >>
    ELSE LET b == IF y = << >> THEN 0 ELSE Head(y)
             d == Head(x) - b - borrow
         IN  <<d % Limb>> \o BigSub(Tail(x),
                                    IF y = << >> THEN y ELSE Tail(y),
                                    IF d < 0 THEN 1 ELSE 0)

\* x < y
BigLess(x, y) ==
    LET n  == IF Len(x) > Len(y) THEN Len(x) ELSE Len(y)
        at(z, k) == IF k <= Len(z) THEN z[k] ELSE 0
    IN  \E k \in 1..n :
            /\ at(x, k) < at(y, k)
            /\ \A j \in (k + 1)..n : at(x, j) = at(y, j)

\* <<x div d, x mod d>> for a small d, most significant limb first
RECURSIVE BigDivSmall(_, _, _)
BigDivSmall(x, d, k) ==
    IF k > Len(x) THEN << << >>, 0 >>
    ELSE LET up  == BigDivSmall(x, d, k + 1)
             num == up[2] * Limb + x[k]
         IN  << <<num \div d>> \o up[1], num % d >>

\* x * 2^k
BigShl(x, k) ==
    [j \in 1..(k \div LimbBits) |-> 0] \o BigMulSmall(x, 2 ^ (k % LimbBits), 0)

\* [q |-> x div 2^k, sticky |-> x mod 2^k # 0]
BigShr(x, k) ==
    LET whole == k \div LimbBits
        kept  == SubSeq(x, whole + 1, Len(x))
        dv    == BigDivSmall(kept, 2 ^ (k % LimbBits), 1)
    IN  [q |-> dv[1],
         sticky |-> dv[2] # 0 \/ \E j \in 1..whole : j <= Len(x) /\ x[j] # 0]

BigToInt(x) ==
    IF x = << >> THEN 0
    ELSE x[1] + (IF Len(x) >= 2 THEN x[2] * Limb ELSE 0)

\* m * 2^e (plus something below the last bit of m when `sticky`) rounded to
\* nearest, ties to even, to a 53-bit significand
Round53(m, e, sticky) ==
    LET k == BigBitLen(m) - 53
    IN  IF k <= 0 THEN [m |-> BigTrim(m), e |-> e]
        ELSE LET s1    == BigShr(m, k - 1)
                 guard == s1.q[1] % 2 = 1
                 s2    == BigShr(s1.q, 1)
                 odd   == s2.q[1] % 2 = 1
                 up    == guard /\ (sticky \/ s1.sticky \/ odd)
             IN  [m |-> BigTrim(IF up THEN BigAdd(s2.q, << >>, 1) ELSE s2.q),
                  e |-> e + k]

\* fl(a / b) for integers a >= 0, b > 0
FlDiv(a, b) ==
    LET s  == 56 + BitLen(b)
        dv == BigDivSmall(BigShl(BigFromInt(a), s), b, 1)
    IN  Round53(dv[1], 0 - s, dv[2] # 0)

\* fl(v * c) for an integer-valued double c >= 0
FlMulInt(v, c) == Round53(BigMulSmall(v.m, c, 0), v.e, FALSE)

\* fl(y + sign * v) for an integer y >= 0 and a double v >= 0 with v.e <= 0
FlAddInt(y, neg, v) ==
    LET yy == BigShl(BigFromInt(y), 0 - v.e)
    IN  IF ~neg THEN
            [neg |-> FALSE] @@ Round53(BigAdd(yy, v.m, 0), v.e, FALSE)
        ELSE IF BigLess(yy, v.m) THEN
            [neg |-> TRUE] @@ Round53(BigSub(v.m, yy, 0), v.e, FALSE)
        ELSE
            [neg |-> FALSE] @@ Round53(BigSub(yy, v.m, 0), v.e, FALSE)

\* Python's int() of a double: truncation toward zero
FloatToInt(s) ==
    LET mag == BigToInt(BigShr(s.m, 0 - s.e).q)
    IN  IF s.neg THEN 0 - mag ELSE mag

\* x * c for one whole limb c, in two halves so that no product leaves the
\* machine word
BigMulLimb(x, c) ==
    BigAdd(BigMulSmall(x, c % (2 ^ 8), 0),
           BigMulSmall(BigMulSmall(x, c \div (2 ^ 8), 0), 2 ^ 8, 0), 0)

\* x * y
RECURSIVE BigMul(_, _)
BigMul(x, y) ==
    IF y = << >> THEN << >>
    ELSE BigAdd(BigMulLimb(x, Head(y)), <<0>> \o BigMul(x, Tail(y)), 0)

\* the double that holds the integer n
FlFromInt(n) == [neg |-> n < 0, m |-> BigTrim(BigFromInt(Abs(n))), e |-> 0]

FlNeg(v) == [v EXCEPT !.neg = ~v.neg]

FlIsZero(v) == BigIsZero(v.m)

\* fl(a + b): the exact sum of the aligned significands, rounded once
FlAdd(a, b) ==
    LET e  == IF a.e < b.e THEN a.e ELSE b.e
        ma == BigShl(a.m, a.e - e)
        mb == BigShl(b.m, b.e - e)
    IN  IF a.neg = b.neg THEN
            [neg |-> a.neg] @@ Round53(BigAdd(ma, mb, 0), e, FALSE)
        ELSE IF BigLess(ma, mb) THEN
            [neg |-> b.neg] @@ Round53(BigSub(mb, ma, 0), e, FALSE)
        ELSE IF BigLess(mb, ma) THEN
            [neg |-> a.neg] @@ Round53(BigSub(ma, mb, 0), e, FALSE)
        ELSE [neg |-> FALSE, m |-> << >>, e |-> 0]

\* fl(a * b)
FlMul(a, b) ==
    [neg |-> a.neg # b.neg] @@ Round53(BigMul(a.m, b.m), a.e + b.e, FALSE)

\* fl(a / b) for integers a and b > 0, with its sign
FlQuot(a, b) == [neg |-> a < 0] @@ FlDiv(Abs(a), b)

\* a < b as real numbers
FlLess(a, b) ==
    LET d == FlAdd(a, FlNeg(b))
    IN  d.neg /\ ~FlIsZero(d)

\* the one representation of a double's value with an odd significand
\* (zero: the empty significand), so that equal values are equal records
FlCanon(v) ==
    IF FlIsZero(v) THEN [neg |-> FALSE, m |-> << >>, e |-> 0]
    ELSE LET z    == Cardinality({ k \in 1..Len(v.m) :
                                     \A j \in 1..k : v.m[j] = 0 })
             bits == Cardinality({ k \in 1..LimbBits :
                                     v.m[z + 1] % (2 ^ k) = 0 })
             sh   == z * LimbBits + bits
         IN  [neg |-> v.neg, m |-> BigTrim(BigShr(v.m, sh).q), e |-> v.e + sh]

\* the integer part of v * 2^k (toward zero), for |v| * 2^k below 2^31
FlScaled(v, k) ==
    LET sh  == v.e + k
        mag == IF sh >= 0 THEN BigToInt(BigTrim(BigShl(v.m, sh)))
               ELSE BigToInt(BigShr(v.m, 0 - sh).q)
    IN  IF v.neg THEN 0 - mag ELSE mag

(***************************************************************************)
(* scipy.interpolate.interp1d(kind='linear', fill_value='extrapolate'), as *)
(* built at synchronizer.py:57-62 and called at synchronizer.py:82.        *)
(***************************************************************************)
RECURSIVE SortSet(_)
SortSet(S) ==
    IF S = {} THEN << >>
    ELSE LET lo == CHOOSE x \in S : \A y \in S : x <= y
         IN  <<lo>> \o SortSet(S \ {lo})

Clip(n, lo, hi) == IF n < lo THEN lo ELSE IF n > hi THEN hi ELSE n

\* y_new = slope * (x_new - x_lo) + y_lo on the segment searchsorted picks,
\* the first or last segment outside the anchor range
Interp1dLinear(m, t) ==
    LET xs    == SortSet(DOMAIN m)
        ins   == Cardinality({ k \in DOMAIN m : k < t })
        hi    == Clip(ins, 1, Len(xs) - 1) + 1
        x_lo  == xs[hi - 1]
        x_hi  == xs[hi]
        dy    == m[x_hi] - m[x_lo]
        c     == t - x_lo
        slope == FlDiv(Abs(dy), x_hi - x_lo)
        prod  == FlMulInt(slope, Abs(c))
    IN  FlAddInt(m[x_lo], (dy < 0) # (c < 0), prod)

\* <<m, t, int(interp1d(m)(t))>> for every interpolator m that can be built
\* and every frame id t asked about, computed once
interpolated_frames ==
    { <<m, t, FloatToInt(Interp1dLinear(m, t))>> :
        m \in { a \in AnchorMaps : Cardinality(DOMAIN a) >= 2 },
        t \in TrackingIds }

\* int(self.sync_interpolator(tracking_frame_id))
interpolated_frame(m, t) ==
    (CHOOSE e \in interpolated_frames : e[1] = m /\ e[2] = t)[3]

(***************************************************************************)
(* Tracking tables: a row is one sample of one entity,                     *)
(*   [frameId, nflId, club, jerseyNumber, val: channel name -> value];     *)
(* the ball's nflId is NaN.                                                *)
(***************************************************************************)
Row(f, id, club, jersey, x, y) ==
    [frameId |-> f, nflId |-> id, club |-> club, jerseyNumber |-> jersey,
     val |-> [c \in {"x", "y"} |-> IF c = "x" THEN x ELSE y]]

\* the plays handed to the constructor, in the row order of the caller
TableOnePlayer ==
    << Row(20, "p1", "KC", 87, 10, 5), Row(10, "p1", "KC", 87, 0, 5) >>
TableTwoPlayers ==
    << Row(3, "p1", "SF", 15, 9, 2),  Row(3, "p2", "DEN", 10, 11, 4),
       Row(2, "p1", "SF", 15, 7, 5),
       Row(1, "p1", "KC", 87, 0, 5),  Row(1, "p2", "DEN", 10, 20, 1) >>
TableBallFirst ==
    << Row(1, "NaN", "football", 0, 3, 0), Row(1, "p1", "KC", 87, 0, 5),
       Row(2, "NaN", "football", 0, 8, 6), Row(2, "p1", "KC", 87, 7, 5) >>
TableBallOnly ==
    << Row(1, "NaN", "football", 0, 3, 0), Row(2, "NaN", "football", 0, 8, 6) >>
TableWithSingle ==
    << Row(1, "p1", "KC", 87, 0, 5), Row(2, "p1", "KC", 87, 7, 5),
       Row(2, "p2", "DEN", 10, 18, 2) >>
TableWithoutSingle ==
    << Row(1, "p1", "KC", 87, 0, 5), Row(2, "p1", "KC", 87, 7, 5) >>
TableShortFirst ==
    << Row(1, "p1", "KC", 87, 0, 5),  Row(2, "p1", "KC", 87, 7, 5),
       Row(2, "p2", "DEN", 10, 18, 2), Row(3, "p2", "DEN", 10, 11, 4),
       Row(1, "p2", "DEN", 10, 20, 1) >>
TableOneFrame == << Row(5, "p1", "KC", 87, 0, 5) >>
TableEmpty == << >>

TrackingTables ==
    { TableOnePlayer, TableTwoPlayers, TableBallFirst, TableBallOnly,
      TableWithSingle, TableWithoutSingle, TableShortFirst, TableOneFrame,
      TableEmpty }

\* target_fps values asked for
TargetFps == { 0, 5, 10, 24, 25, 30 }

\* DataFrame.sort_values('frameId') (default kind 'quicksort', which is not
\* stable): some arrangement of the rows with frameId non-decreasing; the
\* order of the rows of one frame is the sorting routine's
sort_values(rows) ==
    { [i \in 1..Len(rows) |-> rows[f[i]]] :
        f \in { g \in [1..Len(rows) -> 1..Len(rows)] :
                  /\ \A i, j \in 1..Len(rows) : i # j => g[i] # g[j]
                  /\ \A i, j \in 1..Len(rows) :
                         i < j => rows[g[i]].frameId <= rows[g[j]].frameId } }

\* sorted(self.tracking_data['frameId'].unique())
tracking_frames(rows) == SortSet({ rows[i].frameId : i \in 1..Len(rows) })

\* self.tracking_fps
tracking_fps == 10

\* Series.unique(): the values in order of first appearance
RECURSIVE unique(_)
unique(ids) ==
    IF ids = << >> THEN << >>
    ELSE <<Head(ids)>> \o
         unique(SelectSeq(Tail(ids), LAMBDA v : v # Head(ids)))

\* int(len(self.tracking_frames) / self.tracking_fps * target_fps)
num_interpolated_frames(n, target_fps) ==
    FloatToInt([neg |-> FALSE] @@ FlMulInt(FlDiv(n, tracking_fps), target_fps))

\* np.linspace(start, stop, num): arange(num) * step + start with
\* step = (stop - start) / (num - 1), the last point set to stop itself
linspace(start, stop, num) ==
    LET step == [neg |-> FALSE] @@ FlDiv(stop - start, IF num > 1 THEN num - 1 ELSE 1)
    IN  [i \in 1..num |->
            IF num > 1 /\ i = num THEN FlCanon(FlFromInt(stop))
            ELSE FlCanon(FlAdd(FlMul(FlFromInt(i - 1), step), FlFromInt(start)))]

\* interp1d(..., kind='previous'): the value of the sample at or before t
interp1d_previous(player_data, column, t) ==
    LET n   == Len(player_data)
        ins == Cardinality({ k \in 1..n :
                               FlLess(FlFromInt(player_data[k].frameId), t) })
    IN  FlCanon(FlFromInt(player_data[Clip(ins, 1, n - 1)].val[column]))

\* interp1d(player_data['frameId'], player_data[column], kind='linear',
\* fill_value='extrapolate') called at the double t; player_data is sorted
\* by frameId
interp1d_at(player_data, column, t) ==
    LET n     == Len(player_data)
        ins   == Cardinality({ k \in 1..n :
                                 FlLess(FlFromInt(player_data[k].frameId), t) })
        hi    == Clip(ins, 1, n - 1) + 1
        x_lo  == player_data[hi - 1].frameId
        x_hi  == player_data[hi].frameId
        y_lo  == player_data[hi - 1].val[column]
        y_hi  == player_data[hi].val[column]
        slope == FlQuot(y_hi - y_lo, x_hi - x_lo)
    IN  FlCanon(FlAdd(FlMul(slope, FlAdd(t, FlFromInt(0 - x_lo))),
                      FlFromInt(y_lo)))

\* the channels interpolate_tracking_data goes through, in its order
Channels == <<"x", "y", "s", "dir", "o">>

\* player_data.iloc[-1]
iloc_last(player_data) == player_data[Len(player_data)]

\* player_data.iloc[0] of the sorted player_data
iloc0(player_data) == player_data[1]

\* Python's == on two nflId values: NaN equals nothing, itself included
IdEq(a, b) == a # "NaN" /\ a = b

\* self.tracking_data[self.tracking_data['nflId'] == nfl_id] (the isna()
\* rows for the ball), then sort_values('frameId'): an entity has one row
\* per frame, so this order is unique
player_rows(rows, nfl_id) ==
    LET mine == SelectSeq(rows, LAMBDA r : r.nflId = nfl_id)
    IN  CHOOSE sorted \in sort_values(mine) : TRUE

\* the loop at lines 146-158 for one entity and one column: a timeline
\* position beyond the end of interpolated_data appends a new row, any other
\* position is written to only when its row carries the same nflId
store_column(interpolated_data, player_data, nfl_id, column, new_frames) ==
    [i \in 1..(IF Len(interpolated_data) > Len(new_frames)
              THEN Len(interpolated_data) ELSE Len(new_frames)) |->
        IF i > Len(new_frames) THEN interpolated_data[i]
        ELSE LET value == interp1d_at(player_data, column, new_frames[i])
             IN  IF i > Len(interpolated_data) THEN
                     [frameId |-> new_frames[i],
                      interpolated_frame_idx |-> i - 1,
                      nflId |-> nfl_id,
                      club |-> iloc0(player_data).club,
                      jerseyNumber |-> iloc0(player_data).jerseyNumber,
                      val |-> [c \in {column} |-> value]]
                 ELSE IF IdEq(interpolated_data[i].nflId, nfl_id) THEN
                     [interpolated_data[i] EXCEPT
                         !.val = [c \in {column} |-> value] @@ @]
                 ELSE interpolated_data[i]]

\* the loop over the columns an entity's rows have (lines 132-158)
RECURSIVE store_columns(_, _, _, _, _)
store_columns(interpolated_data, player_data, nfl_id, columns, new_frames) ==
    IF columns = << >> THEN interpolated_data
    ELSE store_columns(
             IF Head(columns) \in DOMAIN iloc0(player_data).val
             THEN store_column(interpolated_data, player_data, nfl_id,
                               Head(columns), new_frames)
             ELSE interpolated_data,
             player_data, nfl_id, Tail(columns), new_frames)

\* the loop over the entities (lines 115-158); fewer than two rows: continue
RECURSIVE store_players(_, _, _, _)
store_players(interpolated_data, rows, ids, new_frames) ==
    IF ids = << >> THEN interpolated_data
    ELSE LET player_data == player_rows(rows, Head(ids))
         IN  store_players(
                 IF Len(player_data) < 2 THEN interpolated_data
                 ELSE store_columns(interpolated_data, player_data, Head(ids),
                                    Channels, new_frames),
                 rows, Tail(ids), new_frames)

NoResample ==
    [op |-> "none", kind |-> "none", err |-> "none", target_fps |-> 0,
     n_frames |-> 0, n_new |-> 0, rows |-> << >>]

\* interpolate_tracking_data(target_fps) on the table self.tracking_data:
\* what it returns (the rows of the DataFrame) and the two frame counts it
\* prints; an empty table fails at original_frames[0]
interpolate(rows, target_fps) ==
    LET original_frames == tracking_frames(rows)
        num == num_interpolated_frames(Len(original_frames), target_fps)
    IN  IF original_frames = << >> THEN
            [NoResample EXCEPT !.op = "interpolate_tracking_data",
                               !.kind = "raise", !.err = "IndexError",
                               !.target_fps = target_fps]
        ELSE LET new_frames == linspace(original_frames[1],
                                        original_frames[Len(original_frames)],
                                        num)
                 ids == unique([i \in 1..Len(rows) |-> rows[i].nflId])
             IN  [NoResample EXCEPT
                     !.op = "interpolate_tracking_data",
                     !.kind = "return",
                     !.target_fps = target_fps,
                     !.n_frames = Len(original_frames),
                     !.n_new = Len(new_frames),
                     !.rows = store_players(<< >>, rows, ids, new_frames)]

\* every table a synchronizer can hold
SortedTables == UNION { sort_values(T) : T \in TrackingTables }

\* <<table, target_fps, result>> for every table and rate, computed once
interpolated_tables ==
    { <<rows, fps, interpolate(rows, fps)>> :
        rows \in SortedTables, fps \in TargetFps }

interpolated_df(rows, fps) ==
    (CHOOSE e \in interpolated_tables : e[1] = rows /\ e[2] = fps)[3]

(***************************************************************************)
(* VideoTrackingSynchronizer                                               *)
(***************************************************************************)
Min(a, b) == IF a < b THEN a ELSE b
Max(a, b) == IF a > b THEN a ELSE b

Unset(v) == [has |-> FALSE, val |-> v]
Attr(v)  == [has |-> TRUE, val |-> v]

NoCall ==
    [op |-> "none", t |-> 0, kind |-> "none", val |-> 0, err |-> "none",
     frame |-> "none"]

Returned(op, t, v, frame) ==
    [op |-> op, t |-> t, kind |-> "return", val |-> v, err |-> "none",
     frame |-> frame]

Raised(op, t, err) ==
    [op |-> op, t |-> t, kind |-> "raise", val |-> 0, err |-> err,
     frame |-> "none"]

SyncNotSet == "ValueError: Sync points not set"

\* the object after __init__: no sync attribute exists yet
SyncInit ==
    /\ video_frame_count \in VideoFrameCounts
    /\ sync_map = Unset(EmptyMap)
    /\ sync_interpolator = Unset(EmptyMap)
    /\ frame_offset = Unset(0)
    /\ sync_done = FALSE
    /\ sync_ret = NoCall
    /\ video_calls = << >>

\* set_sync_points(sync_map): the dictionary is stored first; two or more
\* anchors build the interpolator, one anchor sets the offset, and the empty
\* dictionary fails at tracking_frame_ids[0] with neither changed
set_sync_points ==
    \E m \in AnchorMaps :
        /\ sync_map' = Attr(m)
        /\ IF Cardinality(DOMAIN m) >= 2 THEN
               /\ sync_interpolator' = Attr(m)
               /\ frame_offset' = frame_offset
               /\ sync_done' = TRUE
               /\ sync_ret' = Returned("set_sync_points", 0, 0, "none")
           ELSE IF DOMAIN m = {} THEN
               /\ sync_interpolator' = sync_interpolator
               /\ frame_offset' = frame_offset
               /\ sync_done' = sync_done
               /\ sync_ret' = Raised("set_sync_points", 0, "IndexError")
           ELSE
               LET tracking_frame == CHOOSE k \in DOMAIN m : TRUE
                   video_frame == m[tracking_frame]
               IN  /\ frame_offset' = Attr(video_frame - tracking_frame)
                   /\ sync_interpolator' = sync_interpolator
                   /\ sync_done' = TRUE
                   /\ sync_ret' = Returned("set_sync_points", 0, 0, "none")
        /\ video_calls' = << >>
        /\ UNCHANGED <<animator_vars, video_frame_count, resample_vars, overlay_vars>>

\* the clamp without its lower bound
ClampToVideo_NoFloor(video_frame) ==
    Min(video_frame, video_frame_count - 1)

\* max(0, min(video_frame, self.video_frame_count - 1))
ClampToVideo(video_frame) ==
    Max(0, Min(video_frame, video_frame_count - 1))

\* get_video_frame_for_tracking with a missing offset read as 0
video_frame_for_tracking_default(op, t) ==
    IF sync_interpolator.has THEN
        Returned(op, t,
                 ClampToVideo(interpolated_frame(sync_interpolator.val, t)),
                 "none")
    ELSE Returned(op, t, ClampToVideo(t + frame_offset.val), "none")

\* the body of get_video_frame_for_tracking: the interpolator when that
\* attribute exists, else the offset when that one exists, else ValueError
video_frame_for_tracking(op, t) ==
    IF sync_interpolator.has THEN
        Returned(op, t,
                 ClampToVideo(interpolated_frame(sync_interpolator.val, t)),
                 "none")
    ELSE IF frame_offset.has THEN
        Returned(op, t, ClampToVideo(t + frame_offset.val), "none")
    ELSE
        Raised(op, t, SyncNotSet)

get_video_frame_for_tracking ==
    \E t \in TrackingIds :
        /\ sync_ret' = video_frame_for_tracking("get_video_frame_for_tracking", t)
        /\ video_calls' = << >>
        /\ UNCHANGED <<animator_vars, video_frame_count, sync_map, sync_interpolator,
                       frame_offset, sync_done, resample_vars, overlay_vars>>

\* the calls made on self.video (cv2.VideoCapture): the seek
\* set(CAP_PROP_POS_FRAMES, pos) and read() at position pos handing back
\* success = ok
VideoSet(pos) == [call |-> "set", pos |-> pos, ok |-> TRUE]
VideoRead(pos, ok) == [call |-> "read", pos |-> pos, ok |-> ok]

\* get_synced_frame that reads once more when the read failed
get_synced_frame_retrying ==
    \E t \in TrackingIds, success \in BOOLEAN, again \in BOOLEAN :
        LET r == video_frame_for_tracking("get_synced_frame", t)
        IN  /\ sync_ret' =
                   IF r.kind = "raise" THEN r
                   ELSE [r EXCEPT !.frame = IF success \/ again THEN "frame"
                                            ELSE "None"]
            /\ video_calls' =
                   IF r.kind = "raise" THEN << >>
                   ELSE IF success
                   THEN <<VideoSet(r.val), VideoRead(r.val, TRUE)>>
                   ELSE <<VideoSet(r.val), VideoRead(r.val, FALSE),
                          VideoRead(r.val + 1, again)>>
            /\ UNCHANGED <<animator_vars, video_frame_count, sync_map, sync_interpolator,
                           frame_offset, sync_done, resample_vars, overlay_vars>>

\* get_synced_frame: resolve (an error propagates), seek, read once; the
\* frame when the read succeeds, None when it fails
get_synced_frame ==
    \E t \in TrackingIds, success \in BOOLEAN :
        LET r == video_frame_for_tracking("get_synced_frame", t)
        IN  /\ sync_ret' =
                   IF r.kind = "raise" THEN r
                   ELSE [r EXCEPT !.frame = IF success THEN "frame" ELSE "None"]
            /\ video_calls' =
                   IF r.kind = "raise" THEN << >>
                   ELSE <<VideoSet(r.val), VideoRead(r.val, success)>>
            /\ UNCHANGED <<animator_vars, video_frame_count, sync_map, sync_interpolator,
                           frame_offset, sync_done, resample_vars, overlay_vars>>

\* the tables __init__ can leave in self.tracking_data: the caller's table
\* sorted by frameId
TrackingInit ==
    /\ \E T \in TrackingTables : tracking_data \in sort_values(T)
    /\ resample_ret = NoResample
    /\ resample_history =
           [calls |-> 0, first_unsynced |-> FALSE, synced |-> FALSE,
            repeated |-> FALSE]

\* interpolate_tracking_data that resamples only until sync points are set
interpolate_tracking_data_until_synced ==
    \E target_fps \in TargetFps :
        /\ resample_ret' =
               IF sync_done
               THEN [interpolated_df(tracking_data, target_fps) EXCEPT
                        !.rows = << >>]
               ELSE interpolated_df(tracking_data, target_fps)
        /\ resample_history' =
               [calls |-> Min(resample_history.calls + 1, 2),
                first_unsynced |-> IF resample_history.calls = 0
                                   THEN ~sync_done
                                   ELSE resample_history.first_unsynced,
                synced |-> sync_done,
                repeated |-> /\ resample_history.calls > 0
                             /\ resample_ret.target_fps = target_fps]
        /\ UNCHANGED <<animator_vars, tracking_data, sync_vars, overlay_vars>>

\* interpolate_tracking_data(target_fps): reads self.tracking_data,
\* self.tracking_frames and self.tracking_fps and assigns no attribute
interpolate_tracking_data ==
    \E target_fps \in TargetFps :
        /\ resample_ret' = interpolated_df(tracking_data, target_fps)
        /\ resample_history' =
               [calls |-> Min(resample_history.calls + 1, 2),
                first_unsynced |-> IF resample_history.calls = 0
                                   THEN ~sync_done
                                   ELSE resample_history.first_unsynced,
                synced |-> sync_done,
                repeated |-> /\ resample_history.calls > 0
                             /\ resample_ret.target_fps = target_fps]
        /\ UNCHANGED <<animator_vars, tracking_data, sync_vars, overlay_vars>>

SyncNext ==
    \/ set_sync_points
    \/ get_video_frame_for_tracking
    \/ get_synced_frame

(***************************************************************************)
(* TrackingOverlayRenderer: calibration and coordinate conversion          *)
(***************************************************************************)
\* a 3x3 matrix is the tuple <<h11, h12, h13, h21, h22, h23, h31, h32, h33>>
\* of a homography up to scale; what cv2.findHomography returns is
\* [kind |-> "matrix", h |-> ...] or Python's None
NoneH == [kind |-> "None", h |-> <<0, 0, 0, 0, 0, 0, 0, 0, 0>>]
Matrix(h) == [kind |-> "matrix", h |-> h]

\* the homographies of the camera set-ups drawn from: two scalings with a
\* shift and one with real perspective
HSpace ==
    { <<7, 0, 100,  0, 7, 30,  0, 0, 10>>,
      <<7, 0, 0,    0, 7, 0,   0, 0, 10>>,
      <<10, 0, 0,   0, 10, 0,  1, 0, 10>> }

\* homogeneous image of the field point (x, y): (nx / w, ny / w)
Project(h, x, y) ==
    [nx |-> h[1] * x + h[2] * y + h[3],
     ny |-> h[4] * x + h[5] * y + h[6],
     w  |-> h[7] * x + h[8] * y + h[9]]

\* the points h sends the points pts to, where these are integer pixels
Image(h, pts) ==
    [i \in 1..Len(pts) |->
        LET q == Project(h, pts[i][1], pts[i][2])
        IN  <<q.nx \div q.w, q.ny \div q.w>>]

FieldSquare == << <<0, 0>>, <<10, 0>>, <<0, 10>>, <<10, 10>> >>
FieldLine   == << <<0, 0>>, <<5, 0>>, <<10, 0>>, <<15, 0>> >>
VideoLine   == << <<10, 3>>, <<13, 3>>, <<17, 3>>, <<20, 3>> >>

\* (video_points, field_points) arguments of set_field_calibration: four
\* corners seen by each camera, the same with a corner missing, and four
\* points on one line
CalibrationInputs ==
    { [video_points |-> Image(h, FieldSquare), field_points |-> FieldSquare] :
        h \in HSpace }
    \cup
    { [video_points |-> SubSeq(Image(h, FieldSquare), 1, 3),
       field_points |-> SubSeq(FieldSquare, 1, 3)] : h \in HSpace }
    \cup
    { [video_points |-> VideoLine, field_points |-> FieldLine] }

\* field coordinates asked for
FieldXs == { -1, 0, 1, 5, 10 }
FieldYs == { 0, 5, 10 }

Collinear(p, q, r) ==
    (q[1] - p[1]) * (r[2] - p[2]) = (q[2] - p[2]) * (r[1] - p[1])

\* three of the points lie on one line (or coincide)
Degenerate(pts) ==
    \E i, j, k \in 1..Len(pts) :
        i < j /\ j < k /\ Collinear(pts[i], pts[j], pts[k])

Fits(h, src, dst) ==
    \A i \in 1..Len(src) :
        LET q == Project(h, src[i][1], src[i][2])
        IN  /\ q.w # 0
            /\ q.nx = dst[i][1] * q.w
            /\ q.ny = dst[i][2] * q.w

\* what cv2.findHomography(src, dst) can do: fewer than four pairs are
\* rejected with cv2.error; four pairs in general position have exactly one
\* homography; a degenerate configuration has none that the data determine,
\* and the solver hands back None or whatever matrix it ended with
findHomography(src, dst) ==
    IF Len(src) < 4 THEN { [kind |-> "raise", h |-> NoneH.h] }
    ELSE IF Degenerate(src) \/ Degenerate(dst) THEN
        { NoneH } \cup { Matrix(h) : h \in HSpace }
    ELSE { Matrix(CHOOSE h \in HSpace : Fits(h, src, dst)) }

NotCalibrated == "ValueError: Field calibration not set"

NoOverlayCall ==
    [op |-> "none", x |-> 0, y |-> 0, kind |-> "none", px |-> 0, py |-> 0,
     err |-> "none", arg |-> << >>]

NoTrail ==
    [kind |-> "none", err |-> "none", n |-> 0, alpha |-> <<0, 1>>,
     segment_alpha |-> << >>]

\* outcome of a draw call: what it was given (arg), whether it returned the
\* frame or raised, the cv2 primitives it drew on the frame (marks), their
\* colour, and for an arrow its length and where its tip lies from its tail
NoDraw ==
    [op |-> "none", kind |-> "none", err |-> "none", arg |-> 0,
     marks |-> << >>, color |-> <<0, 0, 0>>, arrow_length |-> 0,
     tip |-> <<0, 0>>]

OverlayInit ==
    /\ homography = Unset(NoneH)
    /\ first_homography = Unset(NoneH)
    /\ calibration_points = [video_points |-> << >>, field_points |-> << >>]
    /\ overlay_ret = NoOverlayCall
    /\ trail_ret = NoTrail
    /\ draw_ret = NoDraw

\* set_field_calibration that drops the attribute when findHomography raises
set_field_calibration_resetting ==
    \E c \in CalibrationInputs :
        \E o \in findHomography(c.field_points, c.video_points) :
            /\ homography' = IF o.kind = "raise" THEN Unset(NoneH) ELSE Attr(o)
            /\ calibration_points' =
                   IF o.kind = "raise" THEN calibration_points ELSE c
            /\ first_homography' =
                   IF first_homography.has \/ o.kind = "raise"
                   THEN first_homography ELSE Attr(o)
            /\ overlay_ret' =
                   [NoOverlayCall EXCEPT !.op = "set_field_calibration",
                                         !.kind = IF o.kind = "raise" THEN "raise"
                                                  ELSE "return",
                                         !.arg = c.field_points]
            /\ trail_ret' = trail_ret
            /\ UNCHANGED <<animator_vars, draw_ret, sync_vars, resample_vars>>

\* set_field_calibration(video_points, field_points): whatever
\* findHomography(field_points, video_points) returns is stored; when it
\* raises, nothing is assigned
set_field_calibration ==
    \E c \in CalibrationInputs :
        \E o \in findHomography(c.field_points, c.video_points) :
            /\ IF o.kind = "raise" THEN
                   /\ homography' = homography
                   /\ first_homography' = first_homography
                   /\ calibration_points' = calibration_points
                   /\ overlay_ret' =
                          [NoOverlayCall EXCEPT !.op = "set_field_calibration",
                                                !.kind = "raise",
                                                !.err = "cv2.error",
                                                !.arg = c.field_points]
               ELSE
                   /\ homography' = Attr(o)
                   /\ calibration_points' = c
                   /\ first_homography' =
                          IF first_homography.has THEN first_homography
                          ELSE Attr(o)
                   /\ overlay_ret' =
                          [NoOverlayCall EXCEPT !.op = "set_field_calibration",
                                                !.kind = "return",
                                                !.arg = c.field_points]
            /\ trail_ret' = trail_ret
            /\ UNCHANGED <<animator_vars, draw_ret, sync_vars, resample_vars>>

\* Python's int() of the quotient n / d, d > 0: truncation toward zero.
\* cv2.perspectiveTransform hands back float32 coordinates; for the
\* homographies and field points drawn here every projected coordinate is
\* an integer or at least 1/20 away from one, so the float32 value
\* truncates to the same integer as the exact quotient.
IntOfQuotient(n, d) == IF n >= 0 THEN n \div d ELSE 0 - ((0 - n) \div d)

\* field_to_video_coords without the hasattr test: no homography reads as
\* the identity
video_coords_unchecked(x, y) ==
    LET h == IF homography.has /\ homography.val.kind = "matrix"
             THEN homography.val.h ELSE <<1, 0, 0, 0, 1, 0, 0, 0, 1>>
        q == Project(h, x, y)
    IN  [NoOverlayCall EXCEPT !.op = "field_to_video_coords",
                              !.x = x, !.y = y, !.kind = "return",
                              !.px = IntOfQuotient(q.nx, q.w),
                              !.py = IntOfQuotient(q.ny, q.w)]

\* field_to_video_coords that leaves out the division by the homogeneous
\* coordinate
video_coords_unnormalised(x, y) ==
    IF ~homography.has THEN
        [NoOverlayCall EXCEPT !.op = "field_to_video_coords", !.x = x, !.y = y,
                              !.kind = "raise", !.err = NotCalibrated]
    ELSE IF homography.val.kind = "None" THEN
        [NoOverlayCall EXCEPT !.op = "field_to_video_coords", !.x = x, !.y = y,
                              !.kind = "raise", !.err = "cv2.error"]
    ELSE LET q == Project(homography.val.h, x, y)
         IN  [NoOverlayCall EXCEPT !.op = "field_to_video_coords",
                                   !.x = x, !.y = y, !.kind = "return",
                                   !.px = q.nx, !.py = q.ny]

\* the body of field_to_video_coords(x, y)
video_coords(x, y) ==
    IF ~homography.has THEN
        [NoOverlayCall EXCEPT !.op = "field_to_video_coords", !.x = x, !.y = y,
                              !.kind = "raise", !.err = NotCalibrated]
    ELSE IF homography.val.kind = "None" THEN
        [NoOverlayCall EXCEPT !.op = "field_to_video_coords", !.x = x, !.y = y,
                              !.kind = "raise", !.err = "cv2.error"]
    ELSE LET q == Project(homography.val.h, x, y)
         IN  [NoOverlayCall EXCEPT !.op = "field_to_video_coords",
                                   !.x = x, !.y = y, !.kind = "return",
                                   !.px = IntOfQuotient(q.nx, q.w),
                                   !.py = IntOfQuotient(q.ny, q.w)]

field_to_video_coords ==
    \E x \in FieldXs, y \in FieldYs :
        /\ overlay_ret' = video_coords(x, y)
        /\ UNCHANGED <<animator_vars, homography, first_homography, calibration_points,
                       trail_ret, draw_ret, sync_vars, resample_vars>>

\* longest trail drawn
MaxTrail == 4

\* alpha arguments of draw_player_trail, as <<numerator, denominator>>
Alphas == { <<0 - 1, 2>>, <<0, 1>>, <<3, 5>>, <<1, 1>> }

\* a trail of n positions along the sideline, newest first
TrailPositions(n) == [i \in 1..n |-> <<i, 0>>]

\* alpha * ((len(pixel_positions) - i) / len(pixel_positions)) in doubles
segment_alpha(alpha, n, i) ==
    FlCanon(FlMul(FlQuot(alpha[1], alpha[2]), FlQuot(n - i, n)))

\* <<alpha, n, the opacities of the n - 1 segments>> for every alpha and
\* trail length, computed once
segment_alphas ==
    { <<alpha, n, [i \in 1..(n - 1) |-> segment_alpha(alpha, n, i - 1)]>> :
        alpha \in Alphas, n \in 2..MaxTrail }

trail_alphas(alpha, n) ==
    (CHOOSE e \in segment_alphas : e[1] = alpha /\ e[2] = n)[3]

\* draw_player_trail(frame, positions, team, alpha): fewer than two
\* positions leave the frame alone; otherwise every position is converted
\* (an error of field_to_video_coords propagates) and segment i is blended
\* in with opacity segment_alpha
draw_player_trail ==
    \E n \in 0..MaxTrail, alpha \in Alphas :
        /\ trail_ret' =
               IF n < 2 THEN
                   [NoTrail EXCEPT !.kind = "return", !.n = n, !.alpha = alpha]
               ELSE LET first == video_coords(TrailPositions(n)[1][1],
                                              TrailPositions(n)[1][2])
                    IN  IF first.kind = "raise" THEN
                            [NoTrail EXCEPT !.kind = "raise", !.err = first.err,
                                            !.n = n, !.alpha = alpha]
                        ELSE
                            [NoTrail EXCEPT
                                !.kind = "return", !.n = n, !.alpha = alpha,
                                !.segment_alpha = trail_alphas(alpha, n)]
        /\ draw_ret' = NoDraw
        /\ UNCHANGED <<animator_vars, homography, first_homography, calibration_points,
                       overlay_ret, sync_vars, resample_vars>>

(***************************************************************************)
(* TrackingOverlayRenderer: the other draw methods                         *)
(***************************************************************************)
\* self.colors of a renderer built without a colors argument, and
\* self.colors.get(team, (255, 255, 255))
team_color(team) ==
    IF team = "offense" THEN <<75, 107, 255>>
    ELSE IF team = "defense" THEN <<196, 205, 78>>
    ELSE IF team = "ball" THEN <<61, 217, 255>>
    ELSE <<255, 255, 255>>

Teams == { "offense", "KC" }

\* field positions handed to the draw methods
DrawPoints == { <<0 - 1, 5>>, <<10, 10>> }

\* jersey_number arguments of draw_player
JerseyNumbers == { "None", "15" }

\* draw_player(frame, x, y, team, jersey_number): the position is converted
\* (an error propagates), the two circles are drawn, and with a jersey
\* number the lookup of cv2.FONT_HERSHEY_BOLD, a name cv2 does not define,
\* raises AttributeError
draw_player ==
    \E p \in DrawPoints, team \in Teams, jersey_number \in JerseyNumbers :
        /\ draw_ret' =
               LET c == video_coords(p[1], p[2])
               IN  IF c.kind = "raise" THEN
                       [NoDraw EXCEPT !.op = "draw_player", !.kind = "raise",
                                      !.err = c.err]
                   ELSE IF jersey_number = "None" THEN
                       [NoDraw EXCEPT !.op = "draw_player", !.kind = "return",
                                      !.marks = <<"circle", "circle">>,
                                      !.color = team_color(team)]
                   ELSE
                       [NoDraw EXCEPT !.op = "draw_player", !.kind = "raise",
                                      !.err = "AttributeError",
                                      !.marks = <<"circle", "circle">>,
                                      !.color = team_color(team)]
        /\ trail_ret' = NoTrail
        /\ UNCHANGED <<animator_vars, homography, first_homography, calibration_points,
                       overlay_ret, sync_vars, resample_vars>>

\* distance arguments of draw_separation_line, in tenths of a yard
Distances == { 15, 20, 30, 49, 50, 51, 80 }

\* if distance < 2: red, elif distance < 5: yellow, else: green (BGR)
separation_color(distance) ==
    IF distance < 20 THEN <<0, 0, 255>>
    ELSE IF distance < 50 THEN <<0, 255, 255>>
    ELSE <<0, 255, 0>>

\* draw_separation_line(frame, receiver_pos, defender_pos, distance): both
\* positions are converted (an error propagates), then the line in the
\* colour of the distance, the label background and the label are drawn
draw_separation_line ==
    \E receiver_pos \in DrawPoints, defender_pos \in DrawPoints,
       distance \in Distances :
        /\ draw_ret' =
               LET rec_pixel == video_coords(receiver_pos[1], receiver_pos[2])
                   def_pixel == video_coords(defender_pos[1], defender_pos[2])
               IN  IF rec_pixel.kind = "raise" THEN
                       [NoDraw EXCEPT !.op = "draw_separation_line",
                                      !.kind = "raise", !.err = rec_pixel.err,
                                      !.arg = distance]
                   ELSE
                       [NoDraw EXCEPT !.op = "draw_separation_line",
                                      !.kind = "return", !.arg = distance,
                                      !.marks = <<"line", "rectangle", "text">>,
                                      !.color = separation_color(distance)]
        /\ trail_ret' = NoTrail
        /\ UNCHANGED <<animator_vars, homography, first_homography, calibration_points,
                       overlay_ret, sync_vars, resample_vars>>

\* speed arguments of draw_speed_indicator in yards per second, as
\* <<numerator, denominator>>
Speeds ==
    { <<0 - 100, 1>>, <<0 - 1, 10>>, <<0, 1>>, <<3, 1>>, <<99, 10>>,
      <<10, 1>>, <<1000, 1>> }

\* direction arguments in degrees
Directions == { 0, 90, 180, 270 }

\* np.cos(np.radians(direction)) and np.sin(np.radians(direction)) as the
\* doubles they are: the quarter turns are not exact zeros
cos_radians(direction) ==
    CASE direction = 0   -> [neg |-> FALSE, m |-> <<1>>, e |-> 0]
      [] direction = 90  -> [neg |-> FALSE, m |-> <<23559, 13076, 42534, 17>>,
                             e |-> 0 - 106]
      [] direction = 180 -> [neg |-> TRUE, m |-> <<1>>, e |-> 0]
      [] direction = 270 -> [neg |-> TRUE, m |-> <<17669, 42575, 15516, 13>>,
                             e |-> 0 - 104]

sin_radians(direction) ==
    CASE direction = 0   -> [neg |-> FALSE, m |-> << >>, e |-> 0]
      [] direction = 90  -> [neg |-> FALSE, m |-> <<1>>, e |-> 0]
      [] direction = 180 -> [neg |-> FALSE, m |-> <<23559, 13076, 42534, 17>>,
                             e |-> 0 - 105]
      [] direction = 270 -> [neg |-> TRUE, m |-> <<1>>, e |-> 0]

\* arrow_length = min(int(speed * 5), 50)
arrow_length(speed) ==
    Min(FlScaled(FlMul(FlQuot(speed[1], speed[2]), FlFromInt(5)), 0), 50)

\* int(pixel + arrow_length * c) for a double c
arrow_end(pixel, length, c) ==
    FlScaled(FlAdd(FlFromInt(pixel), FlMul(FlFromInt(length), c)), 0)

\* the pixel coordinates the draw positions can have
PixelCoords ==
    UNION { { IntOfQuotient(Project(h, q[1], q[2]).nx, Project(h, q[1], q[2]).w),
              IntOfQuotient(Project(h, q[1], q[2]).ny, Project(h, q[1], q[2]).w) } :
            h \in HSpace, q \in DrawPoints }

\* for every speed, direction and pixel coordinate: the arrow length and
\* the end coordinate when the pixel is an x and when it is a y, computed
\* once
arrow_ends ==
    [speed \in Speeds |->
        [direction \in Directions |->
            [pixel \in PixelCoords |->
                [length |-> arrow_length(speed),
                 end_x |-> arrow_end(pixel, arrow_length(speed),
                                     cos_radians(direction)),
                 end_y |-> arrow_end(pixel, arrow_length(speed),
                                     sin_radians(direction))]] @@ << >>]
        @@ << >>] @@ << >>

\* draw_speed_indicator(frame, x, y, speed, direction, team): the position
\* is converted (an error propagates), the arrow runs from it to
\* (end_x, end_y), and the speed label is drawn twice
draw_speed_indicator ==
    \E p \in DrawPoints, speed \in Speeds, direction \in Directions,
       team \in Teams :
        /\ draw_ret' =
               LET c == video_coords(p[1], p[2])
               IN  IF c.kind = "raise" THEN
                       [NoDraw EXCEPT !.op = "draw_speed_indicator",
                                      !.kind = "raise", !.err = c.err,
                                      !.arg = speed]
                   ELSE
                       LET e == arrow_ends[speed][direction]
                       IN  [NoDraw EXCEPT
                               !.op = "draw_speed_indicator",
                               !.kind = "return", !.arg = speed,
                               !.marks = <<"arrowedLine", "text", "text">>,
                               !.color = team_color(team),
                               !.arrow_length = e[c.px].length,
                               !.tip = <<e[c.px].end_x - c.px,
                                         e[c.py].end_y - c.py>>]
        /\ trail_ret' = NoTrail
        /\ UNCHANGED <<animator_vars, homography, first_homography, calibration_points,
                       overlay_ret, sync_vars, resample_vars>>

\* number of entries of the info dictionary, and the position argument
InfoSizes == { 0, 2 }
InfoPositions == { "top-left", "bottom-right" }

\* draw_info_overlay(frame, info, position): the background rectangle is
\* blended in and one text line per entry is drawn; the homography is not
\* read
draw_info_overlay ==
    \E n \in InfoSizes, position \in InfoPositions :
        /\ draw_ret' =
               [NoDraw EXCEPT !.op = "draw_info_overlay", !.kind = "return",
                              !.arg = n,
                              !.marks = <<"rectangle", "addWeighted">>
                                        \o [i \in 1..n |-> "text"],
                              !.color = <<255, 255, 255>>]
        /\ trail_ret' = NoTrail
        /\ UNCHANGED <<animator_vars, homography, first_homography, calibration_points,
                       overlay_ret, sync_vars, resample_vars>>

DrawNext ==
    \/ set_field_calibration
    \/ draw_player
    \/ draw_player_trail
    \/ draw_separation_line
    \/ draw_speed_indicator
    \/ draw_info_overlay

OverlayNext ==
    \/ set_field_calibration
    \/ field_to_video_coords
    \/ draw_player_trail

(***************************************************************************)
(* PlayAnimator                                                            *)
(***************************************************************************)
\* one row of the animator's table
PlayRow(f, id, club, jersey, x, y, s, event) ==
    [frameId |-> f, nflId |-> id, club |-> club, jerseyNumber |-> jersey,
     x |-> x, y |-> y, s |-> s, event |-> event]

\* the event column: the pass is thrown in frame 1
Event(f) == IF f = 1 THEN "pass_forward" ELSE "None"

Player1(f) == PlayRow(f, "p1", "KC", "87", 10 + f, 20, 3, Event(f))
Player2(f) == PlayRow(f, "p2", "SF", "NaN", 30 - f, 25, 0, Event(f))
Ball(f)    == PlayRow(f, "NaN", "football", "NaN", 15 + 2 * f, 22, 9, Event(f))

\* number of frames of the plays animated
PlayFrames == 3

\* a play in which every frame has both players and the ball
PlayFull ==
    [i \in 1..(3 * PlayFrames) |->
        LET f == ((i - 1) \div 3) + 1
        IN  IF i % 3 = 1 THEN Player1(f)
            ELSE IF i % 3 = 2 THEN Player2(f) ELSE Ball(f)]

\* the same play without the ball row of frame 2, without the player rows
\* of frame 2, and with the players of one club only
PlayBallGap == SelectSeq(PlayFull, LAMBDA r : ~(r.frameId = 2 /\ r.club = "football"))
PlayPlayerGap == SelectSeq(PlayFull, LAMBDA r : ~(r.frameId = 2 /\ r.club # "football"))
PlayOneClub == SelectSeq(PlayFull, LAMBDA r : r.club # "SF")

Plays == { PlayFull, PlayBallGap, PlayPlayerGap, PlayOneClub }

\* self.ball_tracking and self.player_tracking
ball_tracking == SelectSeq(tracking, LAMBDA r : r.club = "football")
player_tracking == SelectSeq(tracking, LAMBDA r : r.club # "football")

\* self.frames and self.n_frames
frames == tracking_frames(tracking)
n_frames == Len(frames)

\* a handle variable holding None, or holding the artist with this id
NoArtist == [is_none |-> TRUE, id |-> <<0, 0>>]
Handle(id) == [is_none |-> FALSE, id |-> id]

\* an artist on the axes: a scatter, a text, a line or an arrow, with the
\* frame id it was drawn for, the entity it shows and the positions
\* <<frameId, x, y>> it goes through
Artist(id, kind, frame, nfl_id, text, points) ==
    [id |-> id, kind |-> kind, frame |-> frame, nflId |-> nfl_id,
     text |-> text, points |-> points]

NoArgs ==
    [color_map |-> "None", show_trails |-> FALSE, trail_length |-> 0,
     show_speed_vectors |-> FALSE, show_ball_trajectory |-> FALSE]

NoAnimCall == [op |-> "none", kind |-> "none", err |-> "none", frame_idx |-> 0]

NoText == [frame |-> 0, frame_idx |-> 0, event |-> "None"]

\* no PlayAnimator exists yet
AnimatorInit ==
    /\ tracking = << >>
    /\ animation_args = NoArgs
    /\ player_scatter = NoArtist
    /\ ball_scatter = NoArtist
    /\ trail_lines = << >>
    /\ speed_arrows = << >>
    /\ ball_trajectory_line = NoArtist
    /\ frame_text = NoText
    /\ canvas = {}
    /\ frame_seq = 0 - 2
    /\ anim_ret = NoAnimCall
    /\ drawn = << >>

\* PlayAnimator(tracking_data): the table sorted by frameId
PlayAnimator ==
    /\ anim_ret.op = "none"
    /\ \E play \in Plays : tracking' = play
    /\ anim_ret' = [NoAnimCall EXCEPT !.op = "PlayAnimator", !.kind = "return"]
    /\ UNCHANGED <<animation_args, player_scatter, ball_scatter, trail_lines,
                   speed_arrows, ball_trajectory_line, frame_text, canvas,
                   frame_seq, drawn, sync_vars, resample_vars, overlay_vars>>

\* trail_length arguments of create_animation
TrailLengths == { 1, 2 }

\* self.player_tracking['club'].unique()
teams == unique([i \in 1..Len(player_tracking) |-> player_tracking[i].club])

\* create_animation(...): a new field, the handles reset, then the colour
\* map (built from the first two clubs when none is given: IndexError with
\* fewer than two), the arguments stored, the frame counter text, and the
\* FuncAnimation over range(self.n_frames) with repeat=True, which starts
\* with its initial draw (frame_seq = -1)
create_animation ==
    /\ anim_ret.op \in { "PlayAnimator", "create_animation" }
    /\ anim_ret.kind # "animation"
    /\ \E color_map \in { "None", "given" }, show_trails \in BOOLEAN,
          trail_length \in TrailLengths, show_speed_vectors \in BOOLEAN,
          show_ball_trajectory \in BOOLEAN :
        /\ player_scatter' = NoArtist
        /\ ball_scatter' = NoArtist
        /\ trail_lines' = << >>
        /\ speed_arrows' = << >>
        /\ ball_trajectory_line' = NoArtist
        /\ drawn' = << >>
        /\ frame_text' = NoText
        /\ IF color_map = "None" /\ Len(teams) < 2 THEN
               /\ anim_ret' = [NoAnimCall EXCEPT !.op = "create_animation",
                                                 !.kind = "raise",
                                                 !.err = "IndexError"]
               /\ canvas' = {}
               /\ UNCHANGED <<animation_args, frame_seq>>
           ELSE
               /\ animation_args' =
                      [color_map |-> IF color_map = "None" THEN "teams"
                                     ELSE color_map,
                       show_trails |-> show_trails,
                       trail_length |-> trail_length,
                       show_speed_vectors |-> show_speed_vectors,
                       show_ball_trajectory |-> show_ball_trajectory]
               /\ canvas' = { Artist(<<0, 1>>, "frame_text", 0, "NaN", "", << >>) }
               /\ frame_seq' = 0 - 1
               /\ anim_ret' = [NoAnimCall EXCEPT !.op = "create_animation",
                                                 !.kind = "animation"]
    /\ UNCHANGED <<tracking, sync_vars, resample_vars, overlay_vars>>

\* largest number of frame updates of one animation
MaxUpdates == 8

\* the state _update_frame works on: the artists on the axes, the handle
\* attributes, the number of artists this update has created, and the
\* exception raised so far
UpdateState(update) ==
    [update |-> update, created |-> 0, err |-> "none", canvas |-> canvas,
     player_scatter |-> player_scatter, ball_scatter |-> ball_scatter,
     trail_lines |-> trail_lines, speed_arrows |-> speed_arrows,
     ball_trajectory_line |-> ball_trajectory_line, frame_text |-> frame_text]

NotOnAxes == "ValueError: list.remove(x): x not in list"

\* Artist.remove(): takes the artist off the axes' list of children, which
\* raises for an artist that is not on it
remove(st, handle) ==
    IF st.err # "none" THEN st
    ELSE IF \E a \in st.canvas : a.id = handle.id
    THEN [st EXCEPT !.canvas = { a \in @ : a.id # handle.id }]
    ELSE [st EXCEPT !.err = NotOnAxes]

\* ax.scatter, ax.text, ax.plot and ax.arrow: one more artist on the axes,
\* identified by the update that created it and its number in that update
new_id(st) == <<st.update, st.created + 1>>

add_artist(st, kind, frame, nfl_id, text, points) ==
    IF st.err # "none" THEN st
    ELSE [st EXCEPT !.created = @ + 1,
                    !.canvas = @ \cup { Artist(new_id(st), kind, frame, nfl_id,
                                               text, points) }]

points_of(rows) ==
    [i \in 1..Len(rows) |-> <<rows[i].frameId, rows[i].x, rows[i].y>>]

\* lines 143-147: the scatters of the previous update are removed when the
\* handle is not None
clear_scatters(st) ==
    LET st1 == IF st.player_scatter.is_none THEN st
               ELSE remove(st, st.player_scatter)
    IN  IF st1.ball_scatter.is_none THEN st1 ELSE remove(st1, st1.ball_scatter)

\* lines 165-177: one text per player row with a jersey number
RECURSIVE add_jersey_numbers(_, _, _)
add_jersey_numbers(st, rows, frame) ==
    IF rows = << >> THEN st
    ELSE add_jersey_numbers(
             IF Head(rows).jerseyNumber # "NaN"
             THEN add_artist(st, "jersey", frame, Head(rows).nflId,
                             Head(rows).jerseyNumber, points_of(<<Head(rows)>>))
             ELSE st,
             Tail(rows), frame)

\* lines 150-177: the player scatter and the jersey numbers, when the frame
\* has player rows
plot_players(st, frame_data, frame) ==
    IF frame_data = << >> \/ st.err # "none" THEN st
    ELSE add_jersey_numbers(
             [add_artist(st, "player_scatter", frame, "NaN", "",
                         points_of(frame_data))
                 EXCEPT !.player_scatter = Handle(new_id(st))],
             frame_data, frame)

\* lines 180-191: the ball scatter, when the frame has a ball row
plot_ball(st, ball_data, frame) ==
    IF ball_data = << >> \/ st.err # "none" THEN st
    ELSE [add_artist(st, "ball_scatter", frame, "NaN", "", points_of(ball_data))
             EXCEPT !.ball_scatter = Handle(new_id(st))]

\* lines 194-211: with more than one ball row up to the current frame, the
\* old line is removed and a new one is plotted through those rows
plot_ball_trajectory(st, frame) ==
    LET ball_history == SelectSeq(ball_tracking, LAMBDA r : r.frameId <= frame)
    IN  IF ~animation_args.show_ball_trajectory \/ st.err # "none" THEN st
        ELSE IF Len(ball_history) > 1 THEN
            LET st1 == IF st.ball_trajectory_line.is_none THEN st
                       ELSE remove(st, st.ball_trajectory_line)
            IN  IF st1.err # "none" THEN st1
                ELSE [add_artist(st1, "ball_trajectory", frame, "NaN", "",
                                 points_of(ball_history))
                         EXCEPT !.ball_trajectory_line = Handle(new_id(st1))]
        ELSE st

RECURSIVE remove_all(_, _)
remove_all(st, handles) ==
    IF handles = << >> THEN st
    ELSE remove_all(remove(st, Head(handles)), Tail(handles))

\* lines 225-244: for each entity of the frame (the ball's NaN aside) a line
\* through its rows at the trail frame ids, when there is more than one
RECURSIVE add_trails(_, _, _, _)
add_trails(st, nfl_ids, trail_frame_ids, frame) ==
    IF nfl_ids = << >> \/ st.err # "none" THEN st
    ELSE LET nfl_id == Head(nfl_ids)
             player_trail ==
                 player_rows(
                     SelectSeq(player_tracking,
                               LAMBDA r : \E k \in 1..Len(trail_frame_ids) :
                                              r.frameId = trail_frame_ids[k]),
                     nfl_id)
             st1 == IF nfl_id # "NaN" /\ Len(player_trail) > 1
                    THEN [add_artist(st, "trail", frame, nfl_id, "",
                                     points_of(player_trail))
                             EXCEPT !.trail_lines = Append(@, Handle(new_id(st)))]
                    ELSE st
         IN  add_trails(st1, Tail(nfl_ids), trail_frame_ids, frame)

\* lines 214-244
plot_trails(st, frame_data, frame_idx, frame) ==
    IF ~animation_args.show_trails \/ st.err # "none" THEN st
    ELSE LET cleared == remove_all(st, st.trail_lines)
             trail_start_frame == Max(0, frame_idx - animation_args.trail_length)
             trail_frame_ids == SubSeq(frames, trail_start_frame + 1, frame_idx + 1)
         IN  IF cleared.err # "none" THEN cleared
             ELSE add_trails([cleared EXCEPT !.trail_lines = << >>],
                             unique([i \in 1..Len(frame_data) |->
                                         frame_data[i].nflId]),
                             trail_frame_ids, frame)

\* lines 253-276: an arrow per player row with a positive speed
RECURSIVE add_arrows(_, _, _)
add_arrows(st, rows, frame) ==
    IF rows = << >> \/ st.err # "none" THEN st
    ELSE add_arrows(
             IF Head(rows).s > 0
             THEN [add_artist(st, "arrow", frame, Head(rows).nflId, "",
                              points_of(<<Head(rows)>>))
                      EXCEPT !.speed_arrows = Append(@, Handle(new_id(st)))]
             ELSE st,
             Tail(rows), frame)

\* lines 247-276
plot_speed_vectors(st, frame_data, frame) ==
    IF ~animation_args.show_speed_vectors \/ st.err # "none" THEN st
    ELSE LET cleared == remove_all(st, st.speed_arrows)
         IN  IF cleared.err # "none" THEN cleared
             ELSE add_arrows([cleared EXCEPT !.speed_arrows = << >>],
                             frame_data, frame)

\* lines 279-289: the frame counter, with the event of the frame's first
\* player row when it has one
set_frame_text(st, frame_data, frame_idx, frame) ==
    IF st.err # "none" THEN st
    ELSE [st EXCEPT !.frame_text =
              [frame |-> frame, frame_idx |-> frame_idx,
               event |-> IF frame_data = << >> THEN "None"
                         ELSE frame_data[1].event]]

\* the whole of _update_frame(frame_idx)
updated(frame_idx, update) ==
    LET current_frame_id == frames[frame_idx + 1]
        frame_data == SelectSeq(player_tracking,
                                LAMBDA r : r.frameId = current_frame_id)
        ball_data == SelectSeq(ball_tracking,
                               LAMBDA r : r.frameId = current_frame_id)
        st1 == clear_scatters(UpdateState(update))
        st2 == plot_players(st1, frame_data, current_frame_id)
        st3 == plot_ball(st2, ball_data, current_frame_id)
        st4 == plot_ball_trajectory(st3, current_frame_id)
        st5 == plot_trails(st4, frame_data, frame_idx, current_frame_id)
        st6 == plot_speed_vectors(st5, frame_data, current_frame_id)
    IN  set_frame_text(st6, frame_data, frame_idx, current_frame_id)

\* what the FuncAnimation delivers next: frame 0 for its initial draw
\* (frame_seq = -1, at the start and again after each pass, since
\* repeat=True), else the next index of range(self.n_frames)
next_frame_idx == IF frame_seq < 0 THEN 0 ELSE frame_seq

next_frame_seq ==
    IF frame_seq < 0 THEN 0
    ELSE IF frame_seq + 1 < n_frames THEN frame_seq + 1
    ELSE 0 - 1

\* one timer step of the animation: _update_frame(frame_idx) on the next
\* frame index; an exception ends the animation with what the update had
\* done so far
update_frame ==
    /\ anim_ret.kind \in { "animation", "return" }
    /\ anim_ret.op \in { "create_animation", "_update_frame" }
    /\ n_frames > 0
    /\ frame_seq < n_frames
    /\ Len(drawn) < MaxUpdates
    /\ LET st == updated(next_frame_idx, Len(drawn) + 1)
       IN  /\ canvas' = st.canvas
           /\ player_scatter' = st.player_scatter
           /\ ball_scatter' = st.ball_scatter
           /\ trail_lines' = st.trail_lines
           /\ speed_arrows' = st.speed_arrows
           /\ ball_trajectory_line' = st.ball_trajectory_line
           /\ frame_text' = st.frame_text
           /\ anim_ret' =
                  [op |-> "_update_frame",
                   kind |-> IF st.err = "none" THEN "return" ELSE "raise",
                   err |-> st.err, frame_idx |-> next_frame_idx]
    /\ drawn' = Append(drawn, frames[next_frame_idx + 1])
    /\ frame_seq' = next_frame_seq
    /\ UNCHANGED <<tracking, animation_args, sync_vars, resample_vars,
                   overlay_vars>>

AnimatorNext ==
    \/ PlayAnimator
    \/ create_animation
    \/ update_frame

(***************************************************************************)
(* Specifications                                                          *)
(***************************************************************************)
Init == SyncInit /\ TrackingInit /\ OverlayInit /\ AnimatorInit

ResampleNext ==
    \/ interpolate_tracking_data
    \/ set_sync_points

Next ==
    SyncNext \/ interpolate_tracking_data \/ OverlayNext \/ DrawNext
        \/ AnimatorNext

Spec == Init /\ [][Next]_vars

\* one synchronizer resolving frames (its table is one play of one player),
\* the renderer untouched
SyncOnlyInit == Init /\ tracking_data = TableWithoutSingle

SyncSpec == SyncOnlyInit /\ [][SyncNext]_vars

\* one synchronizer resampling its table, whatever table it was built with
\* (its video has 60 frames)
ResampleOnlyInit == Init /\ video_frame_count = 60

ResampleSpec == ResampleOnlyInit /\ [][interpolate_tracking_data]_vars

\* one synchronizer of a two-player play, resampling and setting sync points
\* in any order
ResampleSyncInit ==
    Init /\ video_frame_count = 60 /\ tracking_data \in sort_values(TableTwoPlayers)

ResampleSyncSpec == ResampleSyncInit /\ [][ResampleNext]_vars

\* one renderer, the synchronizer untouched (its video has 60 frames)
OverlayOnlyInit ==
    Init /\ video_frame_count = 60 /\ tracking_data = TableWithoutSingle

OverlaySpec == OverlayOnlyInit /\ [][OverlayNext]_vars

\* one renderer being calibrated and drawing, the synchronizer untouched
DrawOnlyInit ==
    Init /\ video_frame_count = 60 /\ tracking_data = TableWithoutSingle

DrawSpec == DrawOnlyInit /\ [][DrawNext]_vars

\* one PlayAnimator being built and animated, the rest untouched
AnimatorOnlyInit ==
    Init /\ video_frame_count = 60 /\ tracking_data = TableWithoutSingle

AnimatorSpec == AnimatorOnlyInit /\ [][AnimatorNext]_vars

(***************************************************************************)
(* Claims about VideoTrackingSynchronizer (checked under SyncSpec)         *)
(***************************************************************************)
GotVideoFrame ==
    sync_ret.op = "get_video_frame_for_tracking" /\ sync_ret.kind = "return"

\* C1 as stated: whatever the tracking frame id and whatever the video frame
\* count, a value get_video_frame_for_tracking returns lies in
\* 0 .. video_frame_count - 1.
C1_InRangeForEveryCount ==
    GotVideoFrame =>
        0 <= sync_ret.val /\ sync_ret.val <= video_frame_count - 1

\* C1 amended: for a video of at least one frame the returned value lies in
\* 0 .. video_frame_count - 1, however far the tracking frame id is from the
\* anchors; for a video that reports no frames the returned value is 0.
C1_InRangeWhenVideoHasFrames ==
    GotVideoFrame =>
        IF video_frame_count >= 1
        THEN 0 <= sync_ret.val /\ sync_ret.val <= video_frame_count - 1
        ELSE sync_ret.val = 0

\* a frame id far above the anchors resolved against a 60-frame video, and
\* one far below them
C1_Witness ==
    /\ GotVideoFrame
    /\ sync_interpolator.has
    /\ video_frame_count = 60
    /\ \/ sync_ret.t = 58 + Far /\ sync_ret.val = 59
       \/ sync_ret.t = 0 - Far /\ sync_ret.val = 0

\* C2: after set_sync_points with two or more anchors, the frame resolved
\* for an anchor's tracking frame id is exactly that anchor's video frame,
\* when that video frame lies inside the video.
C2_AnchorsHonoured ==
    ( /\ GotVideoFrame
      /\ sync_map.has
      /\ Cardinality(DOMAIN sync_map.val) >= 2
      /\ sync_ret.t \in DOMAIN sync_map.val
      /\ 0 <= sync_map.val[sync_ret.t]
      /\ sync_map.val[sync_ret.t] <= video_frame_count - 1 )
    => sync_ret.val = sync_map.val[sync_ret.t]

\* C3: with anchors {35: 45, 58: 78} and a 1000-frame video, tracking frame
\* 46 resolves to 61 or 62.
C3_ScenarioFrame46 ==
    ( /\ GotVideoFrame
      /\ sync_map.has
      /\ sync_map.val = [k \in {35, 58} |-> IF k = 35 THEN 45 ELSE 78]
      /\ video_frame_count = 1000
      /\ sync_ret.t = 46 )
    => sync_ret.val \in {61, 62}

MonotoneAnchors(m) ==
    \A a, b \in DOMAIN m : a <= b => m[a] <= m[b]

\* C4: while the stored anchor set is non-decreasing in both coordinates,
\* the resolved video frame is non-decreasing in the tracking frame id.
C4_MonotoneResolution ==
    ( /\ sync_done
      /\ sync_map.has
      /\ DOMAIN sync_map.val # {}
      /\ MonotoneAnchors(sync_map.val) )
    => \A a, b \in TrackingIds :
           a <= b => video_frame_for_tracking("get_video_frame_for_tracking", a).val
                     <= video_frame_for_tracking("get_video_frame_for_tracking", b).val

\* C5: after set_sync_points with exactly one anchor (t0 -> v0), tracking
\* frame t resolves to t + (v0 - t0) clamped to the video's frame range.
C5_SingleAnchorOffset ==
    ( /\ GotVideoFrame
      /\ sync_map.has
      /\ Cardinality(DOMAIN sync_map.val) = 1 )
    => LET t0 == CHOOSE k \in DOMAIN sync_map.val : TRUE
           v0 == sync_map.val[t0]
       IN  sync_ret.val =
               Max(0, Min(sync_ret.t + (v0 - t0), video_frame_count - 1))

\* C6: while no set_sync_points call has completed, get_video_frame_for_tracking
\* and get_synced_frame raise the sync-points-not-set error and hand back no
\* frame number and no frame.
C6_NotConfiguredRaises ==
    ( /\ sync_ret.op \in {"get_video_frame_for_tracking", "get_synced_frame"}
      /\ ~sync_done )
    => /\ sync_ret.kind = "raise"
       /\ sync_ret.err = SyncNotSet
       /\ sync_ret.frame = "none"

\* get_synced_frame called after a set_sync_points({}) that failed
C6_Witness ==
    /\ sync_ret.op = "get_synced_frame"
    /\ ~sync_done
    /\ sync_map.has
    /\ sync_ret.kind = "raise"

(***************************************************************************)
(* Claims about TrackingOverlayRenderer (checked under OverlaySpec)        *)
(***************************************************************************)
\* C7: while no homography has ever been stored, field_to_video_coords
\* raises the calibration-not-set error for every (x, y).
C7_NotCalibratedRaises ==
    ( /\ overlay_ret.op = "field_to_video_coords"
      /\ ~first_homography.has )
    => /\ overlay_ret.kind = "raise"
       /\ overlay_ret.err = NotCalibrated

C7_Witness ==
    /\ overlay_ret.op = "field_to_video_coords"
    /\ ~first_homography.has
    /\ overlay_ret.kind = "raise"
    /\ overlay_ret.x = 5

\* C8: set_field_calibration given fewer than 4 point pairs or a degenerate
\* configuration fails with an error instead of storing anything.
C8_BadCalibrationRejected ==
    ( /\ overlay_ret.op = "set_field_calibration"
      /\ (Len(overlay_ret.arg) < 4 \/ Degenerate(overlay_ret.arg)) )
    => overlay_ret.kind = "raise"

C10_RoundedToNearest ==
    ( /\ overlay_ret.op = "field_to_video_coords"
      /\ overlay_ret.kind = "return" )
    => LET q == Project(homography.val.h, overlay_ret.x, overlay_ret.y)
       IN  /\ 2 * Abs(overlay_ret.px * q.w - q.nx) <= Abs(q.w)
           /\ 2 * Abs(overlay_ret.py * q.w - q.ny) <= Abs(q.w)

(***************************************************************************)
(* Claims about interpolate_tracking_data (checked under ResampleSpec, and *)
(* C18 under ResampleSyncSpec)                                             *)
(***************************************************************************)
Resampled ==
    resample_ret.op = "interpolate_tracking_data" /\ resample_ret.kind = "return"

NativeRows == { tracking_data[i] : i \in 1..Len(tracking_data) }
SamplesOf(id) == { r \in NativeRows : r.nflId = id }
\* the entities with at least two native samples
KeptIds == { id \in { r.nflId : r \in NativeRows } : Cardinality(SamplesOf(id)) >= 2 }
DroppedIds(rows) ==
    LET ids == { rows[i].nflId : i \in 1..Len(rows) }
    IN  { id \in ids : Cardinality({ i \in 1..Len(rows) : rows[i].nflId = id }) < 2 }
\* positions of the output rows of one entity
RowsOf(id) == { k \in 1..Len(resample_ret.rows) : resample_ret.rows[k].nflId = id }

\* C12: the new timeline has round(duration * target_fps) points, with
\* duration = (number of distinct native frame ids) / 10: its length is
\* within one half of n_frames * target_fps / 10.
C12_TimelineLengthRounded ==
    Resampled =>
        2 * Abs(10 * resample_ret.n_new
                - resample_ret.n_frames * resample_ret.target_fps) <= 10

\* C13: the output has exactly one row per timeline point for every entity
\* with at least two native samples, E * N rows in all.
C13_RowPerEntityAndPoint ==
    Resampled =>
        /\ Len(resample_ret.rows) = Cardinality(KeptIds) * resample_ret.n_new
        /\ \A id \in KeptIds : \A i \in 0..(resample_ret.n_new - 1) :
               Cardinality({ k \in RowsOf(id) :
                   resample_ret.rows[k].interpolated_frame_idx = i }) = 1

\* C14: a ball (nflId NaN) with at least two native samples has a row at
\* every timeline point, and each of these rows carries every channel of
\* the input table.
C14_BallResampled ==
    (Resampled /\ "NaN" \in KeptIds) =>
        \A i \in 0..(resample_ret.n_new - 1) :
            \E k \in RowsOf("NaN") :
                /\ resample_ret.rows[k].interpolated_frame_idx = i
                /\ DOMAIN resample_ret.rows[k].val = DOMAIN tracking_data[1].val

\* C15: the caller is told how many entities were dropped: what the call
\* hands back (rows and printed counts) determines that number, so no other
\* table with another number of dropped entities yields the same outcome.
C15_DroppedEntitiesCounted ==
    (Resampled /\ resample_ret.rows # << >>) =>
        \A e \in interpolated_tables :
            (e[2] = resample_ret.target_fps /\ e[3] = resample_ret)
                => Cardinality(DroppedIds(e[1]))
                   = Cardinality(DroppedIds(tracking_data))

\* a channel value v (a double) equals the integer y to within 2^-16
NearInt(v, y) == Abs(FlScaled(v, 16) - y * (2 ^ 16)) <= 1

\* C16: for every entity with at least two native samples that has rows in
\* the output, its first row is at the play's first native frame id and its
\* last row at the play's last native frame id, and where the entity has a
\* native sample at that frame the row's channels equal that sample's.
C16_BoundaryFidelity ==
    Resampled =>
        \A id \in KeptIds : RowsOf(id) # {} =>
            LET native == tracking_frames(tracking_data)
                first  == resample_ret.rows[CHOOSE k \in RowsOf(id) :
                                               \A j \in RowsOf(id) : k <= j]
                last   == resample_ret.rows[CHOOSE k \in RowsOf(id) :
                                               \A j \in RowsOf(id) : k >= j]
                AtEdge(row, f) ==
                    /\ row.frameId = FlCanon(FlFromInt(f))
                    /\ \A r \in SamplesOf(id) : r.frameId = f =>
                           \A c \in DOMAIN row.val : NearInt(row.val[c], r.val[c])
            IN  /\ AtEdge(first, native[1])
                /\ AtEdge(last, native[Len(native)])

\* C17: every output row carries the club and the jersey number of its
\* entity's native sample with the smallest frameId.
C17_CategoricalsFromFirstSample ==
    Resampled =>
        \A k \in 1..Len(resample_ret.rows) :
            LET row   == resample_ret.rows[k]
                first == CHOOSE r \in SamplesOf(row.nflId) :
                             \A q \in SamplesOf(row.nflId) : r.frameId <= q.frameId
            IN  /\ row.club = first.club
                /\ row.jerseyNumber = first.jerseyNumber

\* rows of a player whose club and number differ between the samples
C17_Witness ==
    /\ Resampled
    /\ Len(resample_ret.rows) >= 2
    /\ resample_ret.rows[2].nflId = "p1"
    /\ resample_ret.rows[2].club = "KC"
    /\ \E r \in SamplesOf("p1") : r.club = "SF" /\ r.jerseyNumber = 15

C19_LinearInterpolation ==
    Resampled =>
        \A k \in 1..Len(resample_ret.rows) :
            LET row == resample_ret.rows[k]
                S   == SamplesOf(row.nflId)
                t   == FlScaled(row.frameId, 16)
                u(f) == f * (2 ^ 16)
                Segment(a, b) ==
                    /\ a.frameId < b.frameId
                    /\ \A r \in S : ~(a.frameId < r.frameId /\ r.frameId < b.frameId)
                    /\ \/ u(a.frameId) <= t /\ t <= u(b.frameId)
                       \/ t < u(a.frameId) /\ \A r \in S : a.frameId <= r.frameId
                       \/ t > u(b.frameId) /\ \A r \in S : r.frameId <= b.frameId
            IN  \A c \in DOMAIN row.val :
                    \E a, b \in S :
                        /\ Segment(a, b)
                        /\ LET dx == b.frameId - a.frameId
                               dy == b.val[c] - a.val[c]
                           IN  Abs(FlScaled(row.val[c], 16) * dx
                                   - (u(a.val[c]) * dx + dy * (t - u(a.frameId))))
                               <= Abs(dy) + 2 * dx

\* samples at frameId 10 and 20 with x 0 and 10: the row at frameId 15 has
\* x = 5
C19_Witness ==
    /\ Resampled
    /\ \E k \in 1..Len(resample_ret.rows) :
           /\ resample_ret.rows[k].frameId = FlCanon(FlFromInt(15))
           /\ resample_ret.rows[k].val["x"] = FlCanon(FlFromInt(5))
    /\ \E r \in NativeRows : r.frameId = 20 /\ r.val["x"] = 10

(***************************************************************************)
(* Claims about calibration round trip and trails (under OverlaySpec)      *)
(***************************************************************************)
\* C11: after set_field_calibration with four point pairs no three of which
\* are collinear, field_to_video_coords of a field calibration point returns
\* the video calibration point paired with it, to within one pixel.
C11_CalibrationRoundTrip ==
    ( /\ overlay_ret.op = "field_to_video_coords"
      /\ overlay_ret.kind = "return"
      /\ Len(calibration_points.field_points) = 4
      /\ ~Degenerate(calibration_points.field_points)
      /\ ~Degenerate(calibration_points.video_points) )
    => \A i \in 1..4 :
           calibration_points.field_points[i] = <<overlay_ret.x, overlay_ret.y>>
           => /\ Abs(overlay_ret.px - calibration_points.video_points[i][1]) <= 1
              /\ Abs(overlay_ret.py - calibration_points.video_points[i][2]) <= 1

\* the far corner of the field square seen by a camera that shifts it
C11_Witness ==
    /\ overlay_ret.op = "field_to_video_coords"
    /\ overlay_ret.kind = "return"
    /\ Len(calibration_points.field_points) = 4
    /\ ~Degenerate(calibration_points.field_points)
    /\ calibration_points.field_points[4] = <<overlay_ret.x, overlay_ret.y>>
    /\ calibration_points.video_points[4] = <<overlay_ret.px, overlay_ret.py>>
    /\ overlay_ret.px # overlay_ret.x

\* C20: the opacities draw_player_trail applies to the segments are strictly
\* decreasing from the newest segment to the oldest, whatever alpha is.
C20_OpacityStrictlyDecreasing ==
    trail_ret.kind = "return" =>
        \A i, j \in 1..Len(trail_ret.segment_alpha) :
            i < j => FlLess(trail_ret.segment_alpha[j],
                            trail_ret.segment_alpha[i])

(***************************************************************************)
(* Claims about get_synced_frame and the stored sync model (SyncSpec)      *)
(***************************************************************************)
FailedRead ==
    /\ sync_ret.op = "get_synced_frame"
    /\ \E i \in 1..Len(video_calls) :
           video_calls[i].call = "read" /\ ~video_calls[i].ok

\* C23: when the read of the resolved video frame fails, get_synced_frame
\* returns None without raising, having made exactly one seek (to the
\* resolved index) and one read (at that index), and hands back no frame.
C23_FailedReadReported ==
    FailedRead =>
        /\ sync_ret.kind = "return"
        /\ sync_ret.frame = "None"
        /\ sync_ret.val =
               video_frame_for_tracking("get_synced_frame", sync_ret.t).val
        /\ video_calls = <<VideoSet(sync_ret.val),
                           VideoRead(sync_ret.val, FALSE)>>

C23_Witness ==
    /\ FailedRead
    /\ sync_ret.t = 46
    /\ sync_ret.val = 59
    /\ sync_ret.frame = "None"
    /\ Len(video_calls) = 2

\* C27: whatever set_sync_points calls came before, get_video_frame_for_tracking
\* resolves with the model of the stored sync_map: the interpolation through
\* its anchors when it has two or more, the constant offset of its anchor
\* when it has one.
C27_ModelFollowsSyncMap ==
    ( sync_map.has /\ DOMAIN sync_map.val # {} ) =>
        \A t \in TrackingIds :
            video_frame_for_tracking("get_video_frame_for_tracking", t) =
                Returned("get_video_frame_for_tracking", t,
                         ClampToVideo(
                             IF Cardinality(DOMAIN sync_map.val) >= 2
                             THEN interpolated_frame(sync_map.val, t)
                             ELSE LET t0 == CHOOSE k \in DOMAIN sync_map.val : TRUE
                                  IN  t + (sync_map.val[t0] - t0)),
                         "none")

(***************************************************************************)
(* Claims about the draw methods (checked under DrawSpec)                  *)
(***************************************************************************)
\* C21: draw_separation_line draws in the tight colour (red) for a distance
\* below 2 yards, in the moderate colour (yellow) from 2 to 5 yards, both
\* included, and in the open colour (green) only above 5 yards.
C21_SeparationTiers ==
    ( draw_ret.op = "draw_separation_line" /\ draw_ret.kind = "return" ) =>
        draw_ret.color =
            IF draw_ret.arg < 20 THEN <<0, 0, 255>>
            ELSE IF draw_ret.arg <= 50 THEN <<0, 255, 255>>
            ELSE <<0, 255, 0>>

\* C22: whatever the speed and the direction, the arrow draw_speed_indicator
\* draws is at most 50 pixels long: its length is within 50 and its tip
\* lies within 50 pixels of its tail (one pixel allowed for int()).
C22_ArrowWithinMaximum ==
    ( draw_ret.op = "draw_speed_indicator" /\ draw_ret.kind = "return" ) =>
        /\ Abs(draw_ret.arrow_length) <= 50
        /\ draw_ret.tip[1] * draw_ret.tip[1]
             + draw_ret.tip[2] * draw_ret.tip[2] < 51 * 51

\* C25: while no homography is set, no draw method returns normally.
C25_NoDrawBeforeCalibration ==
    ~homography.has =>
        /\ draw_ret.kind # "return"
        /\ trail_ret.kind # "return"

(***************************************************************************)
(* Claims about PlayAnimator (checked under AnimatorSpec)                  *)
(***************************************************************************)
Updated == anim_ret.op = "_update_frame" /\ anim_ret.kind = "return"

\* the frame id of the last update
CurrentFrame == drawn[Len(drawn)]

ArtistsOf(kind) == { a \in canvas : a.kind = kind }

\* C24: within one animation the frame ids of the updates never decrease.
C24_FramesNonDecreasing ==
    \A i, j \in 1..Len(drawn) : i < j => drawn[i] <= drawn[j]

\* C26: after an update, every trail on the canvas goes through at most
\* trail_length positions, and these are the entity's latest positions up
\* to the current frame.
C26_TrailBounded ==
    ( Updated /\ animation_args.show_trails ) =>
        \A a \in ArtistsOf("trail") :
            /\ Len(a.points) <= animation_args.trail_length
            /\ LET mine == player_rows(
                               SelectSeq(player_tracking,
                                         LAMBDA r : r.frameId <= CurrentFrame),
                               a.nflId)
               IN  a.points = points_of(SubSeq(mine,
                                               Len(mine) - Len(a.points) + 1,
                                               Len(mine)))

\* C28: no update removes a scatter that is no longer on the canvas, and
\* after every update at most one player scatter and at most one ball
\* scatter are on the canvas.
C28_ScatterRemovedOnce ==
    anim_ret.op = "_update_frame" =>
        /\ anim_ret.err # NotOnAxes
        /\ Cardinality(ArtistsOf("player_scatter")) <= 1
        /\ Cardinality(ArtistsOf("ball_scatter")) <= 1

\* C29: after an update, the jersey numbers on the canvas are those of the
\* player rows of the current frame, one each, drawn by this update.
C29_LabelsOfCurrentFrame ==
    Updated =>
        /\ \A a \in ArtistsOf("jersey") :
               a.id[1] = Len(drawn) /\ a.frame = CurrentFrame
        /\ Cardinality(ArtistsOf("jersey")) =
               Cardinality({ i \in 1..Len(player_tracking) :
                               /\ player_tracking[i].frameId = CurrentFrame
                               /\ player_tracking[i].jerseyNumber # "NaN" })

\* C30: after an update with show_ball_trajectory, a trajectory line on the
\* canvas goes through ball positions of frames up to the current one only.
C30_TrajectoryUpToCurrent ==
    ( Updated /\ animation_args.show_ball_trajectory ) =>
        \A a \in ArtistsOf("ball_trajectory") :
            \A k \in 1..Len(a.points) : a.points[k][1] <= CurrentFrame


====
